---- MODULE Spec2Model ----
EXTENDS Integers, Sequences, FiniteSets, TLC

(***************************************************************************)
(* Model of the Iowa Hold'em server (src/server.js, lines 1-392): one      *)
(* room table `rooms`, whose handlers joinRoom, playerAction and           *)
(* disconnect run to completion, and the deferred startHand timers set by  *)
(* nextTurn.                                                               *)
(***************************************************************************)

\* ---------------------------------------------------------------- bounds
MaxConn == 3        \* connection handles that ever connect
MaxHands == 2       \* hand starts explored
MaxTimers == 1      \* deferred startHand calls pending at once

\* ------------------------------------------------------ program constants
SMALL_BLIND == 1
BIG_BLIND == 2
STARTING_CHIPS == 200
RoomCapacity == 5
HandSize == 5

SUITS == << "spades", "hearts", "diamonds", "clubs" >>
RANKS == << "2", "3", "4", "5", "6", "7", "8", "9", "10", "J", "Q", "K", "A" >>

PHASES == << "pre-flop-betting", "flop-deal", "flop-discard", "flop-betting",
             "turn-deal", "turn-discard", "turn-betting",
             "river-deal", "river-discard", "river-betting", "showdown" >>

NoPhase == "null"
TimerRoom == "iowa-room"
RoomIds == { "iowa-room" }

Conns == 1..(IF MaxConn > RoomCapacity + 1 THEN MaxConn ELSE RoomCapacity + 1)
Outsider == 0       \* a connected socket that holds no seat

\* ------------------------------------------------------------ the inputs
Actions == { "fold", "check", "call", "raise", "discard", "dance" }
Amounts == { 0, 200 }               \* raise amounts sent; 0 stands for a missing amount
DiscardInputs == { <<>>, <<0>> }    \* discardIndices sent; <<>> stands for a missing list
Draws == { "low" }                  \* how Math.random() falls during a shuffle

VARIABLES
    rooms,      \* roomId -> room state; a room that does not exist is not in the domain
    timers,     \* number of pending setTimeout(startHand) callbacks
    crashed,    \* an uncaught TypeError has ended the process
    reply,      \* what the last handler emitted to the socket it served
    used,       \* connection handles handed out so far
    handNo      \* number of startHand calls so far

vars == << rooms, timers, crashed, reply, used, handNo >>

\* ---------------------------------------------------------------- helpers
RECURSIVE SeqSum(_)
SeqSum(s) == IF s = <<>> THEN 0 ELSE Head(s) + SeqSum(Tail(s))

RECURSIVE SetSum(_, _)
SetSum(f, S) == IF S = {} THEN 0
                ELSE LET x == CHOOSE y \in S : TRUE IN f[x] + SetSum(f, S \ {x})

Max(S) == CHOOSE x \in S : \A y \in S : y <= x

RemoveAt(s, i) == [ k \in 1..(Len(s) - 1) |-> IF k < i THEN s[k] ELSE s[k + 1] ]

\* players.findIndex(p => p.id === h), 0-based, -1 when absent
FindIndex(ps, h) ==
    IF \E k \in 1..Len(ps) : ps[k].id = h
    THEN (CHOOSE k \in 1..Len(ps) : ps[k].id = h /\ \A j \in 1..(k - 1) : ps[j].id # h) - 1
    ELSE -1

Seated(r, h) == FindIndex(r.players, h) # -1

ActivePlayers(r) == SelectSeq(r.players, LAMBDA p : ~p.folded)

BetOf(r, h) == r.bets[h]

\* ------------------------------------------------------------------ deck
\* A card is held as its 1-based place in the deck createDeck builds (suit-major);
\* CardOf gives the { rank, suit } object at that place.
CardOf(c) == [ rank |-> RANKS[((c - 1) % Len(RANKS)) + 1],
               suit |-> SUITS[((c - 1) \div Len(RANKS)) + 1] ]

createDeck == [ i \in 1..(Len(SUITS) * Len(RANKS)) |-> i ]

\* Math.floor(Math.random() * (i + 1)): always the lowest index, always the highest,
\* or always the middle one
Pick(draw, i) == CASE draw = "low" -> 0 [] draw = "high" -> i [] OTHER -> i \div 2

Swap(deck, a, b) == [ deck EXCEPT ![a] = deck[b], ![b] = deck[a] ]

RECURSIVE FisherYates(_, _, _)
FisherYates(deck, i, draw) ==
    IF i <= 0 THEN deck
    ELSE FisherYates(Swap(deck, i + 1, Pick(draw, i) + 1), i - 1, draw)

shuffle(deck, draw) == FisherYates(deck, Len(deck) - 1, draw)

\* ------------------------------------------------------------------ room
NewRoom ==
    [ players |-> <<>>, deck |-> <<>>, community |-> <<>>, pot |-> 0,
      phase |-> NoPhase, turnIndex |-> 0, currentBet |-> 0,
      bets |-> [ h \in Conns |-> 0 ], discards |-> {},
      dealerIndex |-> -1, startingTurnIndex |-> 0 ]

NewPlayer(h) == [ id |-> h, hand |-> <<>>, chips |-> STARTING_CHIPS, folded |-> FALSE ]


\* --------------------------------------------------------------- startHand
\* mutant: every player is dealt the same five cards off the top
DealSameCards(ps, deck) ==
    [ k \in 1..Len(ps) |->
        [ ps[k] EXCEPT !.folded = FALSE,
                       !.hand = SubSeq(deck, 1, HandSize) ] ]

Deal(ps, deck) ==
    [ k \in 1..Len(ps) |->
        [ ps[k] EXCEPT !.folded = FALSE,
                       !.hand = SubSeq(deck, (k - 1) * HandSize + 1, k * HandSize) ] ]

\* chips after the two blind deductions of startHand (one seat pays both when n = 1)
PostBlinds(ps, sb, bb) ==
    [ k \in 1..Len(ps) |->
        [ ps[k] EXCEPT !.chips = @ - (IF k = sb + 1 THEN SMALL_BLIND ELSE 0)
                                   - (IF k = bb + 1 THEN BIG_BLIND ELSE 0) ] ]

BlindBets(ps, sb, bb) ==
    [ h \in Conns |-> IF h = ps[bb + 1].id THEN BIG_BLIND
                      ELSE IF h = ps[sb + 1].id THEN SMALL_BLIND ELSE 0 ]

\* mutant: the big blind itself is given the first turn
FirstToActIsBigBlind(bb, n) == bb % n

FirstToAct(bb, n) == (bb + 1) % n

startHand(r, draw) ==
    LET deck0  == shuffle(createDeck, draw)
        n      == Len(r.players)
        dealer == (r.dealerIndex + 1) % n
        sb     == (dealer + 1) % n
        bb     == (dealer + 2) % n
        dealt  == Deal(r.players, deck0)
    IN  [ r EXCEPT !.deck = SubSeq(deck0, n * HandSize + 1, Len(deck0)),
                   !.community = <<>>,
                   !.discards = {},
                   !.dealerIndex = dealer,
                   !.players = PostBlinds(dealt, sb, bb),
                   !.pot = SMALL_BLIND + BIG_BLIND,
                   !.bets = BlindBets(dealt, sb, bb),
                   !.currentBet = BIG_BLIND,
                   !.turnIndex = FirstToAct(bb, n),
                   !.startingTurnIndex = FirstToAct(bb, n),
                   !.phase = "pre-flop-betting" ]

\* ------------------------------------------------------------ advancePhase
IndexOf(ph) == CHOOSE i \in 1..Len(PHASES) : PHASES[i] = ph

\* mutant: the deal phases are stepped over
NextPhaseSkipsDeal(ph) ==
    IF IndexOf(ph) + 2 > Len(PHASES) THEN "showdown" ELSE PHASES[IndexOf(ph) + 2]

NextPhase(ph) ==
    IF IndexOf(ph) + 1 > Len(PHASES) THEN "showdown" ELSE PHASES[IndexOf(ph) + 1]

Take(s, n) == SubSeq(s, 1, IF n < Len(s) THEN n ELSE Len(s))
Drop(s, n) == SubSeq(s, (IF n < Len(s) THEN n ELSE Len(s)) + 1, Len(s))

DealCommunity(r, n) ==
    [ r EXCEPT !.community = @ \o Take(r.deck, n),
               !.deck = Drop(r.deck, n),
               !.turnIndex = 0,
               !.discards = {} ]

OpenBetting(r) ==
    [ r EXCEPT !.currentBet = 0,
               !.bets = [ h \in Conns |-> 0 ],
               !.discards = {},
               !.startingTurnIndex = r.turnIndex ]

advancePhase(r) ==
    LET ph == NextPhase(r.phase)
        r1 == [ r EXCEPT !.phase = ph ]
    IN  CASE ph = "flop-deal" -> DealCommunity(r1, 3)
          [] ph \in { "turn-deal", "river-deal" } -> DealCommunity(r1, 1)
          [] ph \in { "flop-betting", "turn-betting", "river-betting" } -> OpenBetting(r1)
          [] OTHER -> r1

\* ---------------------------------------------------------------- nextTurn
RECURSIVE ScanNext(_, _, _)
ScanNext(ps, i, attempts) ==
    LET ni == (i + 1) % Len(ps)
    IN  IF attempts + 1 > Len(ps) THEN ni
        ELSE IF ps[ni + 1].folded THEN ScanNext(ps, ni, attempts + 1)
        ELSE ni

FoldOut(r) == Len(ActivePlayers(r)) <= 1

\* mutant: the round closes when the turn is back at the anchor, bets matched or not
RoundClosedByTurnAlone(r) == r.turnIndex = r.startingTurnIndex

RoundClosed(r) ==
    LET active == ActivePlayers(r)
        bets   == [ k \in 1..Len(active) |-> BetOf(r, active[k].id) ]
        maxBet == Max({ bets[k] : k \in 1..Len(active) })
    IN  /\ \A k \in 1..Len(active) : bets[k] = maxBet
        /\ maxBet = r.currentBet
        /\ r.turnIndex = r.startingTurnIndex

\* What one handler run yields: the room afterwards, the message emitted to the
\* calling socket, the number of startHand timers it set, and whether it threw.
Result(r, msg, sched) == [ room |-> r, reply |-> msg, sched |-> sched, threw |-> FALSE ]
Threw(r) == [ room |-> r, reply |-> "none", sched |-> 0, threw |-> TRUE ]

nextTurn(r) ==
    LET r1 == [ r EXCEPT !.turnIndex = ScanNext(r.players, r.turnIndex, 0) ]
    IN  IF FoldOut(r1) THEN Result(r1, "none", 1)
        ELSE IF RoundClosed(r1) THEN Result(advancePhase(r1), "none", 0)
        ELSE Result(r1, "none", 0)


\* ------------------------------------------------------------ playerAction
IsDiscardPhase(ph) == ph \in { "flop-discard", "turn-discard", "river-discard" }

RECURSIVE ScanUnfolded(_, _)
ScanUnfolded(ps, i) ==
    LET ni == (i + 1) % Len(ps)
    IN  IF ps[ni + 1].folded THEN ScanUnfolded(ps, ni) ELSE ni

AllDiscarded(r) ==
    \A k \in 1..Len(r.players) : ~r.players[k].folded => r.players[k].id \in r.discards

Splice(hand, i) == IF i >= 0 /\ i < Len(hand) THEN RemoveAt(hand, i + 1) ELSE hand

discardAction(r, k, action, idx) ==
    LET player == r.players[k]
    IN  IF action # "discard" THEN Result(r, "You must discard a card now.", 0)
        ELSE IF Len(idx) # 1 THEN Result(r, "Must discard exactly one card.", 0)
        ELSE LET r1 == [ r EXCEPT !.players[k].hand = Splice(player.hand, idx[1]),
                                  !.discards = @ \cup { player.id } ]
             IN  IF AllDiscarded(r1) THEN Result(advancePhase(r1), "none", 0)
                 ELSE Result([ r1 EXCEPT !.turnIndex = ScanUnfolded(r1.players, r1.turnIndex) ],
                             "none", 0)

foldAction(r, k) ==
    LET id == r.players[k].id
    IN  nextTurn([ r EXCEPT !.players[k].folded = TRUE,
                          !.pot = @ + BetOf(r, id),
                          !.bets[id] = 0 ])

checkAction(r, k) ==
    IF BetOf(r, r.players[k].id) < r.currentBet
    THEN Result(r, "Cannot check, you must call or raise.", 0)
    ELSE nextTurn(r)

\* mutant: the chips are moved before the sender is found unable to cover the call
callActionUnchecked(r, k) ==
    LET id     == r.players[k].id
        toCall == r.currentBet - BetOf(r, id)
        r1     == [ r EXCEPT !.players[k].chips = @ - toCall,
                             !.pot = @ + toCall,
                             !.bets[id] = r.currentBet ]
    IN  IF r.players[k].chips < toCall THEN Result(r1, "Not enough chips to call.", 0)
        ELSE nextTurn(r1)

callAction(r, k) ==
    LET id     == r.players[k].id
        toCall == r.currentBet - BetOf(r, id)
    IN  IF r.players[k].chips < toCall THEN Result(r, "Not enough chips to call.", 0)
        ELSE nextTurn([ r EXCEPT !.players[k].chips = @ - toCall,
                               !.pot = @ + toCall,
                               !.bets[id] = r.currentBet ])

raiseAction(r, k, amount) ==
    LET id    == r.players[k].id
        toPut == amount - BetOf(r, id)
    IN  IF amount = 0 \/ amount <= r.currentBet
        THEN Result(r, "Raise must be higher than current bet.", 0)
        ELSE IF r.players[k].chips < toPut THEN Result(r, "Not enough chips to raise.", 0)
        ELSE nextTurn([ r EXCEPT !.players[k].chips = @ - toPut,
                               !.pot = @ + toPut,
                               !.currentBet = amount,
                               !.bets[id] = amount ])

bettingAction(r, k, action, amount) ==
    CASE action = "fold"  -> foldAction(r, k)
      [] action = "check" -> checkAction(r, k)
      [] action = "call"  -> callAction(r, k)
      [] action = "raise" -> raiseAction(r, k, amount)
      [] OTHER            -> Result(r, "Unknown action.", 0)

IsTurnOf(r, h) ==
    /\ r.turnIndex + 1 \in 1..Len(r.players)
    /\ r.players[r.turnIndex + 1].id = h

playerAction(r, h, action, amount, idx) ==
    IF ~IsTurnOf(r, h) THEN Result(r, "Not your turn.", 0)
    ELSE LET k == r.turnIndex + 1
         IN  IF r.players[k].folded THEN Result(r, "none", 0)
             ELSE IF r.phase = NoPhase THEN Threw(r)
             ELSE IF IsDiscardPhase(r.phase) THEN discardAction(r, k, action, idx)
             ELSE bettingAction(r, k, action, amount)

\* ---------------------------------------------------------------- joinRoom
joinRoomAboveCapacity(r, h) ==
    IF Len(r.players) > RoomCapacity THEN Result(r, "roomFull", 0)
    ELSE IF Seated(r, h) THEN Result(r, "none", 0)
    ELSE Result([ r EXCEPT !.players = Append(@, NewPlayer(h)) ], "Welcome", 0)

joinRoom(r, h) ==
    IF Len(r.players) >= RoomCapacity THEN Result(r, "roomFull", 0)
    ELSE IF Seated(r, h) THEN Result(r, "none", 0)
    ELSE Result([ r EXCEPT !.players = Append(@, NewPlayer(h)) ], "Welcome", 0)

StartsOnJoin(r) == Len(r.players) >= 2 /\ r.phase = NoPhase

\* -------------------------------------------------------------- disconnect
RemoveSeat(ps, h) == SelectSeq(ps, LAMBDA p : p.id # h)

disconnect(r, h) ==
    LET ps == RemoveSeat(r.players, h)
    IN  [ r EXCEPT !.players = ps,
                   !.bets[h] = 0,
                   !.discards = @ \ { h },
                   !.turnIndex = IF Len(ps) > 0 /\ @ >= Len(ps) THEN 0 ELSE @ ]


\* ----------------------------------------------------------- emitGameState
NullCard == 0       \* the null that stands for a card in Array(n).fill(null)

Masked(hand) == [ i \in 1..Len(hand) |-> NullCard ]

\* mutant: everybody's cards are sent to everybody
gameStateUnmasked(r, p) ==
    [ players |-> [ k \in 1..Len(r.players) |->
                      [ id |-> r.players[k].id,
                        chips |-> r.players[k].chips,
                        folded |-> r.players[k].folded,
                        hand |-> r.players[k].hand,
                        bet |-> BetOf(r, r.players[k].id),
                        isDealer |-> r.dealerIndex = k - 1,
                        isSmallBlind |-> r.dealerIndex # -1
                                         /\ k - 1 = (r.dealerIndex + 1) % Len(r.players),
                        isBigBlind |-> r.dealerIndex # -1
                                       /\ k - 1 = (r.dealerIndex + 2) % Len(r.players) ] ],
      community |-> r.community,
      pot |-> r.pot,
      phase |-> r.phase,
      turnId |-> IF r.turnIndex < Len(r.players) THEN r.players[r.turnIndex + 1].id
                 ELSE Outsider,
      currentBet |-> r.currentBet ]

\* the payload of the 'gameState' message emitGameState sends to seated handle p
\* (turnId is undefined when no seat is at turnIndex: no seated handle)
gameState(r, p) ==
    [ players |-> [ k \in 1..Len(r.players) |->
                      [ id |-> r.players[k].id,
                        chips |-> r.players[k].chips,
                        folded |-> r.players[k].folded,
                        hand |-> IF r.players[k].id = p THEN r.players[k].hand
                                 ELSE Masked(r.players[k].hand),
                        bet |-> BetOf(r, r.players[k].id),
                        isDealer |-> r.dealerIndex = k - 1,
                        isSmallBlind |-> r.dealerIndex # -1
                                         /\ k - 1 = (r.dealerIndex + 1) % Len(r.players),
                        isBigBlind |-> r.dealerIndex # -1
                                       /\ k - 1 = (r.dealerIndex + 2) % Len(r.players) ] ],
      community |-> r.community,
      pot |-> r.pot,
      phase |-> r.phase,
      turnId |-> IF r.turnIndex < Len(r.players) THEN r.players[r.turnIndex + 1].id
                 ELSE Outsider,
      currentBet |-> r.currentBet ]


\* ----------------------------------------------------------------- actions
Exists(rid) == rid \in DOMAIN rooms

Put(rid, r) == [ x \in DOMAIN rooms \cup { rid } |-> IF x = rid THEN r ELSE rooms[x] ]

Delete(rid) == [ x \in DOMAIN rooms \ { rid } |-> rooms[x] ]

SeatedIn(rid) == IF Exists(rid) THEN { rooms[rid].players[k].id : k \in 1..Len(rooms[rid].players) }
                 ELSE {}

Init ==
    /\ rooms = [ x \in {} |-> NewRoom ]
    /\ timers = 0
    /\ crashed = FALSE
    /\ reply = "none"
    /\ used = 0
    /\ handNo = 0

\* socket.on('joinRoom'): by a fresh connection, the next of at most cap, or by one
\* that is seated already
Join(rid, h, draw, cap) ==
    /\ ~crashed
    /\ \/ h = used + 1 /\ used < cap
       \/ h \in SeatedIn(rid)
    /\ LET r0  == IF Exists(rid) THEN rooms[rid] ELSE NewRoom
           res == joinRoom(r0, h)
           starts == res.reply = "Welcome" /\ StartsOnJoin(res.room)
       IN  /\ starts => handNo < MaxHands
           /\ rooms' = Put(rid, IF starts THEN startHand(res.room, draw) ELSE res.room)
           /\ handNo' = IF starts THEN handNo + 1 ELSE handNo
           /\ reply' = res.reply
    /\ used' = IF h = used + 1 THEN used + 1 ELSE used
    /\ UNCHANGED << timers, crashed >>

JoinRoom(rid, h, draw) == Join(rid, h, draw, MaxConn)

\* socket.on('playerAction'), with at most cap deferred hand starts pending
Act(rid, h, action, amount, idx, cap) ==
    /\ ~crashed
    /\ Exists(rid)
    /\ h \in SeatedIn(rid) \cup { Outsider }
    /\ LET res == playerAction(rooms[rid], h, action, amount, idx)
       IN  /\ timers + res.sched <= cap
           /\ rooms' = Put(rid, res.room)
           /\ timers' = timers + res.sched
           /\ crashed' = res.threw
           /\ reply' = res.reply
    /\ UNCHANGED << used, handNo >>

PlayerAction(rid, h, action, amount, idx) == Act(rid, h, action, amount, idx, MaxTimers)

\* socket.on('disconnect') of a seated connection
Disconnect(rid, h) ==
    /\ ~crashed
    /\ h \in SeatedIn(rid)
    /\ LET r1 == disconnect(rooms[rid], h)
       IN  rooms' = IF Len(r1.players) = 0 THEN Delete(rid) ELSE Put(rid, r1)
    /\ reply' = "none"
    /\ UNCHANGED << timers, crashed, used, handNo >>

\* the callback of setTimeout(() => startHand('iowa-room'), 5000)
TimerFires(draw) ==
    /\ ~crashed
    /\ timers > 0
    /\ timers' = timers - 1
    /\ reply' = "none"
    /\ IF Exists(TimerRoom)
       THEN /\ handNo < MaxHands
            /\ rooms' = Put(TimerRoom, startHand(rooms[TimerRoom], draw))
            /\ handNo' = handNo + 1
            /\ crashed' = FALSE
       ELSE /\ crashed' = TRUE
            /\ UNCHANGED << rooms, handNo >>
    /\ UNCHANGED used

Next ==
    \/ \E rid \in RoomIds, h \in Conns, draw \in Draws : JoinRoom(rid, h, draw)
    \/ \E rid \in RoomIds, h \in Conns \cup { Outsider }, action \in Actions :
         \E amount \in (IF action = "raise" THEN Amounts ELSE { 0 }),
            idx \in (IF action = "discard" THEN DiscardInputs ELSE { <<>> }) :
              PlayerAction(rid, h, action, amount, idx)
    \/ \E rid \in RoomIds, h \in Conns : Disconnect(rid, h)
    \/ \E draw \in Draws : TimerFires(draw)

Spec == Init /\ [][Next]_vars

\* ---------------------------------------------------------------- the lobby
\* Connections come and go and nobody plays: one handle more than a room has seats
\* connects, so that a room fills up and a further handle knocks.
LobbyJoin(rid, h, draw) == Join(rid, h, draw, RoomCapacity + 1)

LobbyNext ==
    \/ \E rid \in RoomIds, h \in Conns, draw \in Draws : LobbyJoin(rid, h, draw)
    \/ \E rid \in RoomIds, h \in Conns : Disconnect(rid, h)

SpecLobby == Init /\ [][LobbyNext]_vars


\* ------------------------------------------------------------------ two rooms
\* The handlers take the room name from the message: the same connections spread
\* over two rooms, and play without raises and discards.
TwoRooms == { "iowa-room", "den" }

RoomsActions == { "fold", "check", "call" }

RoomsNext ==
    \/ \E rid \in TwoRooms, h \in Conns, draw \in Draws : JoinRoom(rid, h, draw)
    \/ \E rid \in TwoRooms, h \in Conns \cup { Outsider }, action \in RoomsActions :
          PlayerAction(rid, h, action, 0, << >>)
    \/ \E rid \in TwoRooms, h \in Conns : Disconnect(rid, h)
    \/ \E draw \in Draws : TimerFires(draw)

SpecRooms == Init /\ [][RoomsNext]_vars

\* ------------------------------------------------------------ a fuller table
\* One connection more than in Spec joins, plays without raises and discards, and
\* leaves; the deferred hand start is left pending.
CrowdJoin(rid, h, draw) == Join(rid, h, draw, MaxConn + 1)

CrowdNext ==
    \/ \E rid \in RoomIds, h \in Conns, draw \in Draws : CrowdJoin(rid, h, draw)
    \/ \E rid \in RoomIds, h \in Conns \cup { Outsider }, action \in RoomsActions :
          PlayerAction(rid, h, action, 0, << >>)
    \/ \E rid \in RoomIds, h \in Conns : Disconnect(rid, h)

SpecCrowd == Init /\ [][CrowdNext]_vars

\* ------------------------------------------------------- after the fold-out
\* One room, play without raises and discards, and room for one deferred hand start
\* more than in Spec.
LateAction(rid, h, action) == Act(rid, h, action, 0, << >>, MaxTimers + 1)

LateNext ==
    \/ \E rid \in RoomIds, h \in Conns, draw \in Draws : JoinRoom(rid, h, draw)
    \/ \E rid \in RoomIds, h \in Conns \cup { Outsider }, action \in RoomsActions :
          LateAction(rid, h, action)
    \/ \E rid \in RoomIds, h \in Conns : Disconnect(rid, h)
    \/ \E draw \in Draws : TimerFires(draw)

SpecLate == Init /\ [][LateNext]_vars

\* ------------------------------------------------------- claim vocabulary
SeatIds(r) == [ k \in 1..Len(r.players) |-> r.players[k].id ]

ChipsOf(r, h) == r.players[FindIndex(r.players, h) + 1].chips

HandOf(r, h) == r.players[FindIndex(r.players, h) + 1].hand

ActiveIds(r) == { r.players[k].id : k \in { j \in 1..Len(r.players) : ~r.players[j].folded } }

\* pot + sum of the per-round bets + sum of the seated players' chips
Total(r) == r.pot + SetSum(r.bets, Conns)
                  + SeqSum([ k \in 1..Len(r.players) |-> r.players[k].chips ])

\* a step inside one hand of room rid: the room is in a hand before and after, no
\* hand start in between, and the same players are seated in the same order
SameHand(rid) ==
    /\ rid \in DOMAIN rooms
    /\ rid \in DOMAIN rooms'
    /\ handNo' = handNo
    /\ rooms[rid].phase # NoPhase
    /\ SeatIds(rooms'[rid]) = SeatIds(rooms[rid])

BettingPhases == { "pre-flop-betting", "flop-betting", "turn-betting", "river-betting" }
DealPhases == { "flop-deal", "turn-deal", "river-deal" }
DiscardPhases == { "flop-discard", "turn-discard", "river-discard" }

\* ------------------------------------------------------------------ claims

\* C1: within one hand, pot + sum of bets + sum of seated players' chips keeps its
\* value across every step (fold, check, call, raise, discard).
C1_Conservation ==
    [][ \A rid \in RoomIds :
          SameHand(rid) => Total(rooms'[rid]) = Total(rooms[rid]) ]_vars

\* C2: in every in-hand state with at least two non-folded seats, turnIndex is the
\* index of an existing seat whose player has not folded.
C2_TurnOnActiveSeat ==
    \A rid \in DOMAIN rooms :
        LET r == rooms[rid]
        IN  (r.phase # NoPhase /\ Len(ActivePlayers(r)) >= 2)
            => /\ r.turnIndex \in 0..(Len(r.players) - 1)
               /\ ~r.players[r.turnIndex + 1].folded

\* C3: whenever a step of a hand leaves a phase in which bets are taken (any phase
\* but a discard phase), every non-folded player's bet of the round equals currentBet
\* (the bets of the closed round are still recorded in the state the step ends in:
\* only the opening of the next betting phase clears them).
C3_ClosureOnlyWhenMatched ==
    [][ \A rid \in RoomIds :
          ( /\ SameHand(rid)
            /\ rooms[rid].phase \notin DiscardPhases
            /\ rooms'[rid].phase # rooms[rid].phase )
          => \A h \in ActiveIds(rooms'[rid]) :
                BetOf(rooms'[rid], h) = rooms'[rid].currentBet ]_vars

\* C3 witness: a betting round has closed after a raise to 200 that two players matched
C3_Witness ==
    \E rid \in DOMAIN rooms :
        LET r == rooms[rid]
        IN  /\ r.phase = "flop-deal"
            /\ r.currentBet = 200
            /\ Cardinality(ActiveIds(r)) >= 2
            /\ \A h \in ActiveIds(r) : BetOf(r, h) = 200

\* C4: a discard phase is left only when every non-folded player has discarded, it is
\* left in the step in which the last of them discards, and a discard sent by a player
\* who has already discarded in this phase does not change that player's hand.
C4_DiscardExactlyOnce ==
    [][ \A rid \in RoomIds :
          (SameHand(rid) /\ rooms[rid].phase \in DiscardPhases)
          => LET r == rooms[rid]
                 q == rooms'[rid]
             IN  /\ q.phase # r.phase
                      => \A h \in ActiveIds(r) : h \in r.discards \/ IsTurnOf(r, h)
                 /\ (q.phase = r.phase /\ q.discards # r.discards) => ~AllDiscarded(q)
                 /\ \A h \in r.discards : HandOf(q, h) = HandOf(r, h) ]_vars

\* C5: when a fold leaves exactly one non-folded seat, the hand ends in that step
\* without a showdown, the remaining player's chips grow by the pot plus all the bets
\* of the round, and the pot is empty afterwards.
C5_FoldOutPaysWinner ==
    [][ \A rid \in RoomIds :
          ( /\ SameHand(rid)
            /\ Cardinality(ActiveIds(rooms[rid])) = 2
            /\ Cardinality(ActiveIds(rooms'[rid])) = 1 )
          => LET r == rooms[rid]
                 q == rooms'[rid]
                 w == CHOOSE h \in ActiveIds(q) : TRUE
             IN  /\ ChipsOf(q, w) = ChipsOf(r, w) + r.pot + SetSum(r.bets, Conns)
                 /\ q.pot = 0
                 /\ q.phase # "showdown" ]_vars

\* C6: a hand start with n >= 2 seated players moves the dealer to the next seat modulo
\* n, takes the small blind 1 and the big blind 2 from the first and second seat after
\* the dealer and records them as their bets, and leaves pot = 3, currentBet = 2, the
\* turn on the seat after the big blind and the phase pre-flop betting.
C6_HandStart ==
    [][ \A rid \in RoomIds :
          ( /\ rid \in DOMAIN rooms
            /\ rid \in DOMAIN rooms'
            /\ handNo' = handNo + 1
            /\ Len(rooms'[rid].players) >= 2 )
          => LET r  == rooms[rid]
                 q  == rooms'[rid]
                 n  == Len(q.players)
                 d  == (r.dealerIndex + 1) % n
                 sb == q.players[((d + 1) % n) + 1].id
                 bb == q.players[((d + 2) % n) + 1].id
                 before(h) == IF Seated(r, h) THEN ChipsOf(r, h) ELSE 200
             IN  /\ q.dealerIndex = d
                 /\ sb # bb
                 /\ \A k \in 1..n :
                      LET h == q.players[k].id
                      IN  q.players[k].chips =
                            before(h) - (IF h = sb THEN 1 ELSE IF h = bb THEN 2 ELSE 0)
                 /\ q.bets[sb] = 1
                 /\ q.bets[bb] = 2
                 /\ q.pot = 3
                 /\ q.currentBet = 2
                 /\ q.turnIndex = (d + 3) % n
                 /\ q.phase = "pre-flop-betting" ]_vars

\* C6 witness: the second hand of a three-seat room has just started (dealer seat 1,
\* blinds posted by seats 2 and 0, turn on seat 1)
C6_Witness ==
    \E rid \in DOMAIN rooms :
        LET r == rooms[rid]
        IN  /\ handNo = 2
            /\ Len(r.players) = 3
            /\ r.phase = "pre-flop-betting"
            /\ r.dealerIndex = 1
            /\ r.pot = 3 /\ r.currentBet = 2 /\ r.turnIndex = 1
            /\ r.bets[r.players[3].id] = 1 /\ r.bets[r.players[1].id] = 2

\* what the claim C7 calls an action to be rejected
Illegal(r, h, action, amount) ==
    \/ ~IsTurnOf(r, h)
    \/ action = "check" /\ BetOf(r, h) < r.currentBet
    \/ action = "call" /\ ChipsOf(r, h) < r.currentBet - BetOf(r, h)
    \/ action = "raise" /\ ChipsOf(r, h) < amount - BetOf(r, h)
    \/ action = "raise" /\ amount <= r.currentBet

\* C7: in every reachable state, a playerAction that is out of turn, a check below
\* currentBet, a call or raise that the sender's chips do not cover, or a raise not
\* above currentBet, leaves every field of the room as it was and sets no timer; in a
\* started hand the handler also returns normally.
C7_RejectedLeavesRoom ==
    \A rid \in DOMAIN rooms :
        \A h \in SeatedIn(rid) \cup { Outsider }, action \in Actions :
            \A amount \in (IF action = "raise" THEN Amounts ELSE { 0 }),
               idx \in (IF action = "discard" THEN DiscardInputs ELSE { <<>> }) :
                 Illegal(rooms[rid], h, action, amount)
                 => LET res == playerAction(rooms[rid], h, action, amount, idx)
                    IN  /\ res.room = rooms[rid]
                        /\ res.sched = 0
                        /\ rooms[rid].phase # NoPhase => ~res.threw

\* C7 witness: a call the caller's chips did not cover has just been refused
C7_Witness ==
    /\ reply = "Not enough chips to call."
    /\ \E rid \in DOMAIN rooms :
         LET r == rooms[rid]
             p == r.players[r.turnIndex + 1]
         IN  p.chips < r.currentBet - BetOf(r, p.id)

\* C8: fold, check, call and raise sent outside a betting phase, and discard sent
\* outside a discard phase (before the first hand, in a deal phase, at showdown, after
\* a fold-out), are refused and change nothing.
C8_WrongPhaseRejected ==
    [][ \A rid \in RoomIds, h \in Conns, action \in Actions :
          \A amount \in Amounts, idx \in DiscardInputs :
            ( /\ rid \in DOMAIN rooms
              /\ \/ action \in { "fold", "check", "call", "raise" }
                      /\ (rooms[rid].phase \notin BettingPhases \/ FoldOut(rooms[rid]))
                 \/ action = "discard" /\ rooms[rid].phase \notin DiscardPhases
              /\ PlayerAction(rid, h, action, amount, idx) )
            => rooms' = rooms /\ timers' = timers /\ ~crashed' ]_vars

\* C9: the room is never in a deal phase in a state it rests in between two handler
\* runs: the step that closes a betting round ends in the following discard phase.
C9_DealPhasesTransient ==
    \A rid \in DOMAIN rooms : rooms[rid].phase \notin DealPhases

\* C10: inside a hand the phase only ever changes to its immediate successor in PHASES.
C10_PhaseSuccessorOnly ==
    [][ \A rid \in RoomIds :
          (SameHand(rid) /\ rooms'[rid].phase # rooms[rid].phase)
          => /\ IndexOf(rooms[rid].phase) < Len(PHASES)
             /\ rooms'[rid].phase = PHASES[IndexOf(rooms[rid].phase) + 1] ]_vars

\* C10 witness: a hand has walked the whole sequence and stands at showdown
C10_Witness ==
    \E rid \in DOMAIN rooms :
        /\ rooms[rid].phase = "showdown"
        /\ Len(rooms[rid].community) = 5

\* the level currentBet has when a betting round opens: the big blind before the
\* flop, nothing afterwards
OpenLevel(ph) == IF ph = "pre-flop-betting" THEN BIG_BLIND ELSE 0

\* C11: after an accepted raise the round is closed by the seats that follow the
\* raiser: the raise itself never closes the round, and the accepted action after
\* which every non-folded seat has matched the raised currentBet (so each of them has
\* acted since the raise) closes it in that very step, the raiser and the seats that
\* had matched already not being asked again.
C11_RaiseMovesClosureAnchor ==
    [][ \A rid \in RoomIds :
          ( /\ SameHand(rid)
            /\ rooms[rid].phase \in BettingPhases
            /\ rooms'[rid] # rooms[rid] )
          => LET r == rooms[rid]
                 q == rooms'[rid]
             IN  /\ q.currentBet > r.currentBet => q.phase = r.phase
                 /\ ( /\ q.currentBet = r.currentBet
                      /\ r.currentBet > OpenLevel(r.phase)
                      /\ Cardinality(ActiveIds(q)) >= 2
                      /\ \A h \in ActiveIds(q) : BetOf(q, h) = q.currentBet )
                    => q.phase # r.phase ]_vars

\* the chips the seated players have put in since they sat down with STARTING_CHIPS:
\* during the first hand, the chips they have put in during this hand
PaidIn(r) == SeqSum([ k \in 1..Len(r.players) |-> STARTING_CHIPS - r.players[k].chips ])

\* C12: a fold forfeits the folder's contribution exactly once: when the pot holds
\* every chip put in during the (first) hand once before a fold, it still holds every
\* such chip once after the fold, the folder's included, and the folder's tracked bet
\* is 0.
C12_FoldCountsChipsOnce ==
    [][ \A rid \in RoomIds :
          ( /\ SameHand(rid)
            /\ handNo = 1
            /\ rooms[rid].pot = PaidIn(rooms[rid]) )
          => \A k \in 1..Len(rooms[rid].players) :
                ( ~rooms[rid].players[k].folded /\ rooms'[rid].players[k].folded )
                => /\ rooms'[rid].pot = PaidIn(rooms'[rid])
                   /\ BetOf(rooms'[rid], rooms[rid].players[k].id) = 0 ]_vars

\* C13: the step that closes a betting round leaves every per-round bet at 0 in the
\* state it ends in (the state in which the next phase's prompt goes out), and the
\* chips committed during the round are in the pot once: a pot that held every chip
\* put in during the (first) hand once before the step does so after it.
C13_ClosureClearsBets ==
    [][ \A rid \in RoomIds :
          ( /\ SameHand(rid)
            /\ rooms[rid].phase \in BettingPhases
            /\ rooms'[rid].phase # rooms[rid].phase )
          => /\ \A h \in Conns : BetOf(rooms'[rid], h) = 0
             /\ ( handNo = 1 /\ rooms[rid].pot = PaidIn(rooms[rid]) )
                => rooms'[rid].pot = PaidIn(rooms'[rid]) ]_vars

\* C14: in every state of a discard phase, a discard of one card sent by any seated,
\* non-folded player who has not discarded yet is accepted (no error is answered and
\* the sender is marked as having discarded, or the phase moves on), wherever the turn
\* pointer stands.
C14_DiscardInAnyOrder ==
    \A rid \in DOMAIN rooms :
        rooms[rid].phase \in DiscardPhases
        => \A h \in ActiveIds(rooms[rid]) \ rooms[rid].discards :
              LET res == playerAction(rooms[rid], h, "discard", 0, << 0 >>)
              IN  /\ res.reply = "none"
                  /\ \/ h \in res.room.discards
                     \/ res.room.phase # rooms[rid].phase

\* C15: an accepted discard takes one card out of the discarding player's hand and
\* draws one card from the deck in its place: across the step every player who held
\* HandSize cards still holds HandSize cards, and the deck is one card shorter.
C15_DiscardDrawsReplacement ==
    [][ \A rid \in RoomIds :
          ( /\ SameHand(rid)
            /\ rooms[rid].phase \in DiscardPhases
            /\ rooms'[rid] # rooms[rid] )
          => /\ \A k \in 1..Len(rooms[rid].players) :
                   Len(rooms[rid].players[k].hand) = HandSize
                   => Len(rooms'[rid].players[k].hand) = HandSize
             /\ Len(rooms'[rid].deck) = Len(rooms[rid].deck) - 1 ]_vars

\* C16: in every phase of a hand, discard phases with discards still owed included,
\* when two seats are left in the hand a fold by the one whose turn it is is accepted
\* (the seat is folded, no error is answered) and ends the hand in that step (the
\* next hand start is scheduled).
C16_FoldOutInEveryPhase ==
    \A rid \in DOMAIN rooms :
        LET r == rooms[rid]
        IN  ( /\ r.phase \in BettingPhases \cup DealPhases \cup DiscardPhases
              /\ Cardinality(ActiveIds(r)) = 2
              /\ r.turnIndex < Len(r.players)
              /\ ~r.players[r.turnIndex + 1].folded )
            => LET res == playerAction(r, r.players[r.turnIndex + 1].id, "fold", 0, << >>)
               IN  /\ res.reply = "none"
                   /\ res.room.players[r.turnIndex + 1].folded
                   /\ res.sched = 1

\* C17: the step that brings a hand to showdown pays the pot out: with P the pot at
\* showdown (the pot before the step plus what the closing call, if it was one, paid
\* in) there is a non-empty set W of non-folded players, the winners, such that each
\* of them gains P \div |W| chips, nobody else's chips change through the payout, and
\* the pot is 0 afterwards.
C17_ShowdownSplitsPot ==
    [][ \A rid \in RoomIds :
          ( /\ SameHand(rid)
            /\ rooms[rid].phase # "showdown"
            /\ rooms'[rid].phase = "showdown" )
          => LET r == rooms[rid]
                 q == rooms'[rid]
                 actor == r.players[r.turnIndex + 1].id
             IN  \E W \in SUBSET ActiveIds(q) \ { {} },
                    paid \in { 0, r.currentBet - BetOf(r, actor) } :
                    LET share == (r.pot + paid) \div Cardinality(W)
                    IN  /\ q.pot = 0
                        /\ \A k \in 1..Len(r.players) :
                              q.players[k].chips
                                = r.players[k].chips
                                  - (IF r.players[k].id = actor THEN paid ELSE 0)
                                  + (IF r.players[k].id \in W THEN share ELSE 0) ]_vars

\* C18: the step that ends a hand, by reaching showdown or by a fold that leaves one
\* non-folded seat, in a room with at least two seated players leaves a deferred hand
\* start pending: a hand is started only by a join or by that timer, so without it no
\* new hand can follow unless a player acts.
C18_NextHandScheduled ==
    [][ \A rid \in RoomIds :
          ( /\ SameHand(rid)
            /\ Len(rooms'[rid].players) >= 2
            /\ \/ rooms[rid].phase # "showdown" /\ rooms'[rid].phase = "showdown"
               \/ /\ Cardinality(ActiveIds(rooms[rid])) >= 2
                  /\ Cardinality(ActiveIds(rooms'[rid])) = 1 )
          => timers' > 0 ]_vars

\* C19: at every occupancy of a room, a full room included, a joinRoom sent by a
\* handle that holds a seat in it changes nothing in the room and is not answered
\* roomFull.
C19_RejoinIsNoOp ==
    \A rid \in DOMAIN rooms :
        \A h \in SeatedIn(rid) :
            LET res == joinRoom(rooms[rid], h)
            IN  /\ res.room = rooms[rid]
                /\ res.reply # "roomFull"

\* C20: a room never holds more than RoomCapacity seats, and a joinRoom sent to a
\* room with RoomCapacity seats by a handle that holds none of them is answered
\* roomFull and leaves the room as it was.
C20_RoomFullAtCapacity ==
    \A rid \in DOMAIN rooms :
        /\ Len(rooms[rid].players) <= RoomCapacity
        /\ Len(rooms[rid].players) = RoomCapacity
           => \A h \in Conns \ SeatedIn(rid) :
                 LET res == joinRoom(rooms[rid], h)
                 IN  /\ res.reply = "roomFull"
                     /\ res.room = rooms[rid]

\* C20 witness: handles 1 to 5 hold the five seats and the sixth handle has just been
\* turned away
C20_Witness ==
    \E rid \in DOMAIN rooms :
        /\ SeatedIn(rid) = 1..RoomCapacity
        /\ used = RoomCapacity + 1
        /\ reply = "roomFull"

\* the handle whose turn it is
TurnId(r) == r.players[r.turnIndex + 1].id

\* a step in which handle h gives up its seat in room rid during a hand, the room
\* living on
Leaves(rid, h) ==
    /\ rid \in DOMAIN rooms
    /\ rid \in DOMAIN rooms'
    /\ handNo' = handNo
    /\ rooms[rid].phase # NoPhase
    /\ Seated(rooms[rid], h)
    /\ ~Seated(rooms'[rid], h)
    /\ rooms[rid].turnIndex < Len(rooms[rid].players)

\* the seats that follow seat k (1-based) in the order of play, the nearest first
After(ps, k) == [ i \in 1..(Len(ps) - 1) |-> ps[((k - 1 + i) % Len(ps)) + 1] ]

\* C21: when a seated player leaves during a hand, the player who held the turn still
\* holds it if it was not the leaver; if it was the leaver, the turn is on the nearest
\* non-folded seat after the leaver's among the remaining ones.
C21_LeaveKeepsTurn ==
    [][ \A rid \in RoomIds, h \in Conns :
          Leaves(rid, h)
          => LET r == rooms[rid]
                 q == rooms'[rid]
                 next == SelectSeq(After(r.players, r.turnIndex + 1), LAMBDA p : ~p.folded)
             IN  /\ q.turnIndex < Len(q.players)
                 /\ TurnId(r) # h => TurnId(q) = TurnId(r)
                 /\ (TurnId(r) = h /\ Len(next) > 0) => TurnId(q) = next[1].id ]_vars

\* C22: a leave during a hand does to the pot and to the per-round bets what a fold of
\* the leaving player would have done, and a room is destroyed by a leave exactly when
\* the leaver held its last seat.
C22_LeaveIsImplicitFold ==
    [][ \A rid \in RoomIds, h \in Conns :
          /\ ( /\ rid \in DOMAIN rooms
               /\ Seated(rooms[rid], h)
               /\ handNo' = handNo
               /\ rid \in DOMAIN rooms' => ~Seated(rooms'[rid], h) )
             => ( rid \notin DOMAIN rooms' <=> Len(rooms[rid].players) = 1 )
          /\ ( /\ Leaves(rid, h)
               /\ rooms[rid].phase \notin DiscardPhases
               /\ ~rooms[rid].players[FindIndex(rooms[rid].players, h) + 1].folded )
             => LET f == foldAction(rooms[rid], FindIndex(rooms[rid].players, h) + 1).room
                IN  /\ rooms'[rid].pot = f.pot
                    /\ rooms'[rid].bets = f.bets ]_vars

\* C23: a deferred hand start that comes due after every player has left its room
\* does nothing: no room is created or changed and the server does not fail.
C23_TimerCancelledWithRoom ==
    [][ ( timers' < timers /\ DOMAIN rooms = {} )
        => ( rooms' = rooms /\ ~crashed' ) ]_vars

\* a room whose hand has ended by fold-out: a hand is on and one seat at most is
\* not folded
FoldedOut(r) == r.phase # NoPhase /\ Cardinality(ActiveIds(r)) <= 1

\* the state of room rid differs across the step (created and destroyed included)
Changed(rid) ==
    \/ (rid \in DOMAIN rooms) # (rid \in DOMAIN rooms')
    \/ rid \in DOMAIN rooms /\ rid \in DOMAIN rooms' /\ rooms'[rid] # rooms[rid]

\* C24: rooms are independent: no step changes more than one room, and while a room
\* stands folded out, the deferred hand start that comes due runs without failure
\* and changes no room but one that is folded out.
C24_RoomsIndependent ==
    [][ /\ \A x, y \in TwoRooms : (Changed(x) /\ Changed(y)) => x = y
        /\ ( /\ timers' < timers
             /\ \E rid \in DOMAIN rooms : FoldedOut(rooms[rid]) )
           => /\ ~crashed'
              /\ \A rid \in TwoRooms :
                    Changed(rid) => (rid \in DOMAIN rooms /\ FoldedOut(rooms[rid])) ]_vars

\* room r with every card in the hands of the players other than p replaced by the
\* card d places further on in the deck's order
OthersHold(r, p, d) ==
    [ r EXCEPT !.players =
        [ k \in 1..Len(r.players) |->
            IF r.players[k].id = p THEN r.players[k]
            ELSE [ r.players[k] EXCEPT !.hand =
                     [ i \in 1..Len(@) |-> ((@[i] - 1 + d) % Len(createDeck)) + 1 ] ] ] ]

\* C25: the gameState payload for a seated handle holds that player's own hand and,
\* for every other player, as many nulls as that player holds cards; it is the same
\* for any other cards in the other players' hands.
C25_OthersHandsMasked ==
    \A rid \in DOMAIN rooms :
        \A p \in SeatedIn(rid) :
            LET r  == rooms[rid]
                gs == gameState(r, p)
            IN  /\ \A k \in 1..Len(r.players) :
                      IF r.players[k].id = p THEN gs.players[k].hand = r.players[k].hand
                      ELSE /\ Len(gs.players[k].hand) = Len(r.players[k].hand)
                           /\ \A i \in 1..Len(r.players[k].hand) :
                                 gs.players[k].hand[i] = NullCard
                /\ \A d \in 1..3 : gameState(OthersHold(r, p, d), p) = gs

\* C25 witness: two players hold five cards each, and the payload for the one shows
\* its own five cards and not the other's
C25_Witness ==
    \E rid \in DOMAIN rooms :
        \E p, o \in SeatedIn(rid) :
            /\ p # o
            /\ Len(HandOf(rooms[rid], p)) = HandSize
            /\ Len(HandOf(rooms[rid], o)) = HandSize
            /\ gameState(rooms[rid], p).players[FindIndex(rooms[rid].players, p) + 1].hand
                 = HandOf(rooms[rid], p)
            /\ gameState(rooms[rid], p).players[FindIndex(rooms[rid].players, o) + 1].hand
                 # HandOf(rooms[rid], o)

\* every card of room r, place by place: the hands, the community cards, the deck
RECURSIVE Hands(_, _)
Hands(ps, k) == IF k = 0 THEN << >> ELSE Hands(ps, k - 1) \o ps[k].hand

CardsOf(r) == Hands(r.players, Len(r.players)) \o r.community \o r.deck

\* no card twice, and nothing but cards of the deck createDeck builds
Distinct(cards) ==
    /\ \A i \in 1..Len(cards) : cards[i] \in 1..Len(createDeck)
    /\ Cardinality({ cards[i] : i \in 1..Len(cards) }) = Len(cards)

\* the community cards on the table in each phase of a hand
CommunityIn(ph) ==
    CASE ph = "pre-flop-betting" -> 0
      [] ph \in { "flop-deal", "flop-discard", "flop-betting" } -> 3
      [] ph \in { "turn-deal", "turn-discard", "turn-betting" } -> 4
      [] OTHER -> 5

IsSuffix(s, t) == Len(s) <= Len(t) /\ s = SubSeq(t, Len(t) - Len(s) + 1, Len(t))

\* the decks a hand can start from
ShuffledDecks == { shuffle(createDeck, draw) : draw \in Draws }

RECURSIVE Advance(_, _)
Advance(r, n) == IF n = 0 THEN r ELSE Advance(advancePhase(r), n - 1)

\* a hand started at a table of n fresh players and dealt out to the river: every
\* player was served five cards, the table five, all of them distinct
FullTableServed(n, draw) ==
    LET r0 == [ NewRoom EXCEPT !.players = [ k \in 1..n |-> NewPlayer(k) ] ]
        r1 == startHand(r0, draw)
        r7 == Advance(r1, 7)
    IN  /\ \A k \in 1..n : Len(r1.players[k].hand) = HandSize
        /\ Len(r1.deck) = Len(createDeck) - n * HandSize
        /\ Distinct(CardsOf(r1))
        /\ r7.phase = "river-deal"
        /\ Len(r7.community) = 5
        /\ Len(r7.deck) = Len(r1.deck) - 5
        /\ Distinct(CardsOf(r7))

EveryTableServed == \A n \in 1..RoomCapacity, draw \in Draws : FullTableServed(n, draw)

\* C26: the cards in the hands, on the table and in the deck of a room are distinct
\* cards of the 52-card deck; during a hand the table and the deck, in this order,
\* are the tail of the deck the hand was shuffled to (so the deck only loses cards off
\* its front, each of them to the table, and none comes back); every draw was
\* served in full (whole hands of five before the table's cards; three, four, five
\* community cards according to the phase), at every table size up to the room's
\* capacity.
C26_CardsDistinct ==
    /\ \A rid \in DOMAIN rooms :
          LET r == rooms[rid]
              dealt == Len(createDeck) - Len(r.community) - Len(r.deck)
          IN  /\ Distinct(CardsOf(r))
              /\ r.phase # NoPhase
                 => /\ Len(r.community) = CommunityIn(r.phase)
                    /\ \E d \in ShuffledDecks : IsSuffix(r.community \o r.deck, d)
                    /\ dealt % HandSize = 0
                    /\ dealt >= HandSize * Cardinality({ k \in 1..Len(r.players) :
                                                          Len(r.players[k].hand) > 0 })
    /\ EveryTableServed

\* C26 witness: three players hold cards and all five community cards are out
C26_Witness ==
    \E rid \in DOMAIN rooms :
        /\ Len(rooms[rid].community) = 5
        /\ \E a, b, c \in SeatedIn(rid) :
              /\ a # b /\ a # c /\ b # c
              /\ Len(HandOf(rooms[rid], a)) > 0
              /\ Len(HandOf(rooms[rid], b)) > 0
              /\ Len(HandOf(rooms[rid], c)) > 0

\* C27: in every reachable state every seated player's chip count is at least 0, the
\* states right after the blinds of a hand start included.
C27_ChipsNonNegative ==
    \A rid \in DOMAIN rooms :
        \A k \in 1..Len(rooms[rid].players) : rooms[rid].players[k].chips >= 0

\* C28: in every state of a discard phase, a discard sent by the non-folded player
\* whose turn it is with an index that designates no card of the hand (-1, or the
\* hand's length) is rejected: an error is answered and the room is unchanged (no
\* discard marked, hand, turn and phase as before).
C28_OutOfRangeDiscardRejected ==
    \A rid \in DOMAIN rooms :
        LET r == rooms[rid]
        IN  ( /\ r.phase \in DiscardPhases
              /\ r.turnIndex < Len(r.players)
              /\ ~r.players[r.turnIndex + 1].folded )
            => \A i \in { -1, Len(r.players[r.turnIndex + 1].hand) } :
                  LET res == playerAction(r, TurnId(r), "discard", 0, << i >>)
                  IN  /\ res.reply # "none"
                      /\ res.room = r

\* what a player does who neither raises nor folds: call when behind, check otherwise
Passive(r) == IF BetOf(r, TurnId(r)) < r.currentBet THEN "call" ELSE "check"

\* phase ph is left after at most n passive actions, each by the player whose turn
\* it is (a call the chips do not cover ends the run: that player cannot go along)
RECURSIVE ClosesWithin(_, _, _)
ClosesWithin(r, ph, n) ==
    IF r.phase # ph THEN TRUE
    ELSE IF n = 0 THEN FALSE
    ELSE LET res == playerAction(r, TurnId(r), Passive(r), 0, << >>)
         IN  IF res.reply # "none" THEN TRUE
             ELSE ClosesWithin(res.room, ph, n - 1)

\* C29: from every state of a betting phase with at least two non-folded seats and
\* the turn on one of them, the round closes after at most one call or check per
\* non-folded seat, whether or not the seat that acted first in the round has folded
\* since.
C29_RoundCanClose ==
    \A rid \in DOMAIN rooms :
        LET r == rooms[rid]
        IN  ( /\ r.phase \in BettingPhases
              /\ Cardinality(ActiveIds(r)) >= 2
              /\ r.turnIndex < Len(r.players)
              /\ ~r.players[r.turnIndex + 1].folded )
            => ClosesWithin(r, r.phase, Cardinality(ActiveIds(r)))

\* C30: in every state of a betting or discard phase with at least two non-folded
\* seated players, some seated player has an action the server accepts: a message
\* that is answered no error and moves the hand on.
C30_SomebodyCanAct ==
    \A rid \in DOMAIN rooms :
        LET r == rooms[rid]
        IN  ( /\ r.phase \in BettingPhases \cup DiscardPhases
              /\ Cardinality(ActiveIds(r)) >= 2 )
            => \E h \in SeatedIn(rid), action \in Actions,
                  amount \in Amounts, idx \in DiscardInputs :
                  LET res == playerAction(r, h, action, amount, idx)
                  IN  res.reply = "none" /\ res.room # r

\* C31: at most one deferred hand start is pending at any time (there is one room
\* here), whatever the players send after the fold-out that set it: one fold-out,
\* one hand start.
C31_OneDeferredStart == timers <= 1

\* C32: every hand start, by a join or by the deferred timer, happens in a room with
\* at least two seated players and has the small and the big blind posted by two
\* different ones of them.
C32_HandNeedsTwoPlayers ==
    [][ handNo' = handNo + 1
        => \A rid \in DOMAIN rooms' :
              rooms'[rid].phase = "pre-flop-betting"
              => /\ Len(rooms'[rid].players) >= 2
                 /\ \E s, b \in SeatedIn(rid)' :
                       /\ s # b
                       /\ BetOf(rooms'[rid], s) = SMALL_BLIND
                       /\ BetOf(rooms'[rid], b) = BIG_BLIND ]_vars

\* the phases up to the first discard: a seat without cards in one of them was not
\* dealt in (startHand deals five cards to every seat), it joined during the hand
EarlyPhases == { "pre-flop-betting", "flop-deal", "flop-discard" }

JoinedLate(r, k) == r.phase \in EarlyPhases /\ Len(r.players[k].hand) = 0

\* room r with the late joiners left out of the hand, as folded seats are
LateFolded(r) ==
    [ r EXCEPT !.players = [ k \in 1..Len(r.players) |->
                               IF JoinedLate(r, k) THEN [ r.players[k] EXCEPT !.folded = TRUE ]
                               ELSE r.players[k] ] ]

\* C33: a player who joined during the hand is never given the turn, the closure
\* test of a betting round comes out as it would without that player, and a discard
\* phase does not wait for that player: it is over once every other non-folded
\* player has discarded.
C33_LateJoinerSitsOut ==
    \A rid \in DOMAIN rooms :
        LET r == rooms[rid]
        IN  r.phase \in EarlyPhases
            => /\ r.turnIndex < Len(r.players) => ~JoinedLate(r, r.turnIndex + 1)
               /\ r.phase = "pre-flop-betting"
                  => RoundClosed(r) = RoundClosed(LateFolded(r))
               /\ ( /\ r.phase = "flop-discard"
                    /\ \E k \in 1..Len(r.players) : JoinedLate(r, k) )
                  => ~AllDiscarded(LateFolded(r))

====
